---- MODULE Spec2Model ----
(***************************************************************************)
(* Model of the portal backend (backend/main.go, the revision that starts  *)
(* at line 182 of the file: the one with demoGroups, the fallback path and *)
(* the case-insensitive group match).                                      *)
(*                                                                         *)
(* Go strings are modelled as sequences of one-character strings, so that  *)
(* strings.Split, strings.TrimSpace and strings.EqualFold are computed as  *)
(* the library computes them.  A nil slice and an empty slice are both the *)
(* empty sequence.                                                         *)
(***************************************************************************)
EXTENDS Integers, Sequences, FiniteSets, TLC

\* ------------------------------------------------------------------ strings

\* the empty Go string
Empty == <<>>

Comma == ","

IsSpace(c) == c = " "

\* unicode.ToLower restricted to the letters the inputs use
Lower(c) ==
  CASE c = "A" -> "a"
    [] c = "B" -> "b"
    [] c = "T" -> "t"
    [] OTHER -> c

\* strings.TrimSpace: s without its leading and trailing white space
TrimSpace(s) ==
  LET keep == {i \in 1..Len(s) : ~IsSpace(s[i])}
  IN  IF keep = {} THEN Empty
      ELSE LET lo == CHOOSE i \in keep : \A j \in keep : i <= j
               hi == CHOOSE i \in keep : \A j \in keep : j <= i
           IN  SubSeq(s, lo, hi)

\* a faulty variant of EqualFold: the comparison of the earlier revision, s == t
EqualFoldCaseSensitive(s, t) == s = t

\* strings.EqualFold: equality under case folding
EqualFold(s, t) ==
  /\ Len(s) = Len(t)
  /\ \A i \in 1..Len(s) : Lower(s[i]) = Lower(t[i])

RECURSIVE SplitFrom(_, _, _)
\* the pieces of s from position i on, cur being the piece under construction
SplitFrom(s, i, cur) ==
  IF i > Len(s) THEN <<cur>>
  ELSE IF s[i] = Comma THEN <<cur>> \o SplitFrom(s, i + 1, Empty)
  ELSE SplitFrom(s, i + 1, Append(cur, s[i]))

\* a faulty variant of Split: every piece trimmed at parse time
SplitTrimmed(s) ==
  LET p == SplitFrom(s, 1, Empty) IN [i \in 1..Len(p) |-> TrimSpace(p[i])]

\* strings.Split(s, ","): one piece more than s has commas, none trimmed
Split(s) == SplitFrom(s, 1, Empty)

\* ------------------------------------------------------------ Group Matcher

\* the test of the inner loops: some app group and some user group are equal
\* after TrimSpace on both sides, under case folding
GroupsMatch(appGroups, userGroups) ==
  \E i \in 1..Len(appGroups) : \E j \in 1..Len(userGroups) :
     EqualFold(TrimSpace(appGroups[i]), TrimSpace(userGroups[j]))

RECURSIVE FilterLoop(_, _, _)
\* the loop over apps from index k on; each app is appended at most once
\* (the goto leaves both inner loops at the first matching pair)
FilterLoop(apps, userGroups, k) ==
  IF k > Len(apps) THEN <<>>
  ELSE LET app == apps[k]
           rest == FilterLoop(apps, userGroups, k + 1)
       IN  IF Len(app.Groups) = 0 THEN <<app>> \o rest
           ELSE IF GroupsMatch(app.Groups, userGroups) THEN <<app>> \o rest
           ELSE rest

RECURSIVE FilterLoopNoGoto(_, _, _)
\* a faulty variant of the loop: no goto, one append for every matching pair
FilterLoopNoGoto(apps, userGroups, k) ==
  IF k > Len(apps) THEN <<>>
  ELSE LET app == apps[k]
           rest == FilterLoopNoGoto(apps, userGroups, k + 1)
           hits == Cardinality({p \in (1..Len(app.Groups)) \X (1..Len(userGroups)) :
                      EqualFold(TrimSpace(app.Groups[p[1]]), TrimSpace(userGroups[p[2]]))})
       IN  IF Len(app.Groups) = 0 THEN <<app>> \o rest
           ELSE [i \in 1..hits |-> app] \o rest

\* a faulty variant of filterAppsByGroups: an empty caller group set passes only the
\* public applications
FilterStrictOnEmpty(apps, userGroups) == FilterLoop(apps, userGroups, 1)

\* a faulty variant of filterAppsByGroups: public applications are not special-cased
FilterNoPublic(apps, userGroups) ==
  IF Len(userGroups) = 0 THEN apps
  ELSE SelectSeq(apps, LAMBDA a : GroupsMatch(a.Groups, userGroups))

\* a faulty variant of filterAppsByGroups: one append per matching pair
FilterNoGoto(apps, userGroups) ==
  IF Len(userGroups) = 0 THEN apps ELSE FilterLoopNoGoto(apps, userGroups, 1)

\* filterAppsByGroups(apps, userGroups)
filterAppsByGroups(apps, userGroups) ==
  IF Len(userGroups) = 0 THEN apps ELSE FilterLoop(apps, userGroups, 1)

\* ------------------------------------------------------- Annotation Mapper

KeyEnabled == "dashboard.home/enabled"
KeyTitle == "dashboard.home/title"
KeyIcon == "dashboard.home/icon"
KeyDescription == "dashboard.home/description"
KeyGroups == "dashboard.home/groups"

\* the literal the enabled annotation is compared with
TrueLiteral == <<"t", "r", "u", "e">>

\* the URL of every application of the static source
PlaceholderURL == <<"https://example.com">>

\* annotations[key] of a Go map: the zero value "" when the key is missing
Lookup(annotations, key) ==
  IF key \in DOMAIN annotations THEN annotations[key] ELSE Empty

\* a faulty variant of IsEnabled: the flag compared under case folding
IsEnabledFold(annotations) == EqualFold(Lookup(annotations, KeyEnabled), TrueLiteral)

\* the guard of both mapping loops: the record is skipped unless this holds
IsEnabled(annotations) == Lookup(annotations, KeyEnabled) = TrueLiteral

\* the groups of an application: strings.Split of a non-empty annotation, and
\* the nil slice otherwise
ParseGroups(annotations) ==
  LET groups == Lookup(annotations, KeyGroups)
  IN  IF groups # Empty THEN Split(groups) ELSE <<>>

\* a faulty variant of getIngressURL: TLS looked up for the host of the first rule
getIngressURLPerHost(ing) ==
  IF Len(ing.Rules) > 0
  THEN LET host == ing.Rules[1].Host
       IN  IF \E t \in 1..Len(ing.TLS) : \E h \in 1..Len(ing.TLS[t].Hosts) :
                 ing.TLS[t].Hosts[h] = host
           THEN <<"https://">> \o host
           ELSE <<"http://">> \o host
  ELSE Empty

\* getIngressURL(ing)
getIngressURL(ing) ==
  IF Len(ing.Rules) > 0
  THEN LET host == ing.Rules[1].Host
       IN  IF Len(ing.TLS) > 0
           THEN <<"https://">> \o host
           ELSE <<"http://">> \o host
  ELSE Empty

\* the App literal of getDemoApps plus its Groups
DemoApp(ing) ==
  [Title |-> Lookup(ing.Annotations, KeyTitle),
   Icon |-> Lookup(ing.Annotations, KeyIcon),
   Description |-> Lookup(ing.Annotations, KeyDescription),
   URL |-> PlaceholderURL,
   Groups |-> ParseGroups(ing.Annotations)]

\* the App literal of getK8sApps plus its Groups
K8sApp(ing) ==
  [Title |-> Lookup(ing.Annotations, KeyTitle),
   Icon |-> Lookup(ing.Annotations, KeyIcon),
   Description |-> Lookup(ing.Annotations, KeyDescription),
   URL |-> getIngressURL(ing),
   Groups |-> ParseGroups(ing.Annotations)]

RECURSIVE DemoLoop(_, _)
\* the loop of getDemoApps over config.Ingresses, from index k on
DemoLoop(ingresses, k) ==
  IF k > Len(ingresses) THEN <<>>
  ELSE IF ~IsEnabled(ingresses[k].Annotations) THEN DemoLoop(ingresses, k + 1)
  ELSE <<DemoApp(ingresses[k])>> \o DemoLoop(ingresses, k + 1)

RECURSIVE K8sLoop(_, _)
\* the loop of getK8sApps over ingresses.Items, from index k on
K8sLoop(items, k) ==
  IF k > Len(items) THEN <<>>
  ELSE IF ~IsEnabled(items[k].Annotations) THEN K8sLoop(items, k + 1)
  ELSE <<K8sApp(items[k])>> \o K8sLoop(items, k + 1)

\* ---------------------------------------------------------------- bounds

\* longest groups annotation of the matcher's string sweep
MaxAnnLen == 3

\* longest caller group string of the matcher's string sweep
MaxHdrLen == 2

\* longest application list handed to the filter
MaxApps == 3

\* longest list of source records handed to the mapping loops
MaxRecs == 2

\* ----------------------------------------------------------------- state

VARIABLES
  env,         \* the value of DEMO_MODE in the process environment
  started,     \* main() has run up to ListenAndServe
  demoMode,    \* var demoMode
  demoGroups,  \* var demoGroups
  files,       \* the file system: path -> file
  cluster,     \* the orchestration API: its availability and its ingresses
  changes,     \* the number of source changes so far
  reqs,        \* the requests: id -> the position and the locals of handleApps
  mapItems,    \* mapping loops alone: the source records
  mapApps,     \* mapping loops alone: the applications returned
  mapDone,     \* mapping loops alone: which loop has run ("" for none)
  fltApps,     \* filter alone: the argument apps
  fltUser,     \* filter alone: the argument userGroups
  fltOut,      \* filter alone: the value returned
  fltDone      \* filter alone: the filter has run

serverVars == <<env, started, demoMode, demoGroups, files, cluster, changes, reqs>>
mapVars == <<mapItems, mapApps, mapDone>>
fltVars == <<fltApps, fltUser, fltOut, fltDone>>
vars == <<serverVars, mapVars, fltVars>>

\* ------------------------------------------------------------- input sets

\* the characters of the matcher's string sweep
Chars == {"a", "A", "b", " ", ","}

RECURSIVE StringsUpTo(_)
\* every string over Chars of length at most n
StringsUpTo(n) ==
  IF n = 0 THEN {Empty}
  ELSE LET shorter == StringsUpTo(n - 1)
       IN  shorter \cup {Append(s, c) : s \in shorter, c \in Chars}

RECURSIVE ListsUpTo(_, _)
\* every list of at most n elements of S
ListsUpTo(S, n) ==
  IF n = 0 THEN {<<>>}
  ELSE LET shorter == ListsUpTo(S, n - 1)
       IN  shorter \cup {Append(l, x) : l \in shorter, x \in S}

\* an annotation that a bag does not carry
Absent == <<"(absent)">>

\* the annotation bag with the given enabled, title and groups annotations,
\* each possibly Absent
Bag(enabled, title, groups) ==
  LET all == (KeyEnabled :> enabled) @@ (KeyTitle :> title) @@ (KeyGroups :> groups)
  IN  [k \in {x \in DOMAIN all : all[x] # Absent} |-> all[k]]

\* an application as the filter sees it
AppOf(title, groups) ==
  [Title |-> title, Icon |-> Empty, Description |-> Empty,
   URL |-> PlaceholderURL, Groups |-> groups]

\* group lists of the applications handed to the filter
FilterAppGroups ==
  { <<>>,
    <<<<"a">>>>,
    <<<<"A", " ">>>>,
    <<<<"b">>, <<" ", "a">>>>,
    <<<<"c">>>> }

\* the applications handed to the filter
FilterApps == {AppOf(t, g) : t \in {<<"x">>, <<"y">>}, g \in FilterAppGroups}

\* the caller group sets handed to the filter
FilterUsers ==
  { <<>>,
    <<<<"a">>>>,
    <<<<" ", "A">>>>,
    <<<<"b">>, <<"a">>>>,
    <<<<"B">>, <<"d">>>>,
    <<<<"d">>>> }

\* values of the enabled annotation
EnabledValues ==
  { Absent, Empty, TrueLiteral, <<"T", "r", "u", "e">>, <<"1">>,
    <<" ", "t", "r", "u", "e">> }

\* values of the groups annotation
GroupsValues ==
  { Absent, Empty, <<"b", ",", " ", "A">>, <<"a", ",">>, <<" ">> }

HostA == <<"app.example.com">>
HostB == <<"other.example.com">>

\* routing of a source record: its rules and its TLS entries
Routings ==
  { [Rules |-> <<>>, TLS |-> <<>>],
    [Rules |-> <<>>, TLS |-> <<[Hosts |-> <<HostA>>]>>],
    [Rules |-> <<[Host |-> HostA]>>, TLS |-> <<>>],
    [Rules |-> <<[Host |-> HostA]>>, TLS |-> <<[Hosts |-> <<HostA>>]>>],
    [Rules |-> <<[Host |-> HostA], [Host |-> HostB]>>, TLS |-> <<[Hosts |-> <<HostB>>]>>],
    [Rules |-> <<[Host |-> Empty]>>, TLS |-> <<>>] }

\* a source record of the cluster: annotations and routing
Ingress(annotations, routing) ==
  [Annotations |-> annotations, Rules |-> routing.Rules, TLS |-> routing.TLS]

\* the source records handed to the mapping loops: every enabled value with
\* every groups value, and every routing on an enabled record
MapRecords ==
  {Ingress(Bag(e, <<"x">>, g), [Rules |-> <<[Host |-> HostA]>>, TLS |-> <<>>]) :
      e \in EnabledValues, g \in GroupsValues}
  \cup {Ingress(Bag(TrueLiteral, <<"y">>, Absent), r) : r \in Routings}

\* the constant state of the server while a function is checked alone
ServerIdle ==
  /\ env = ""
  /\ started = FALSE
  /\ demoMode = FALSE
  /\ demoGroups = <<>>
  /\ files = <<>>
  /\ cluster = <<>>
  /\ changes = 0
  /\ reqs = <<>>

MapIdle == mapItems = <<>> /\ mapApps = <<>> /\ mapDone = ""

FilterIdle == fltApps = <<>> /\ fltUser = <<>> /\ fltOut = <<>> /\ fltDone = FALSE

\* ------------------------------------------------- the filter, run alone

InitFilter ==
  /\ ServerIdle /\ MapIdle
  /\ fltApps \in ListsUpTo(FilterApps, MaxApps)
  /\ fltUser \in FilterUsers
  /\ fltOut = <<>>
  /\ fltDone = FALSE

\* one application whose groups are the pieces of an annotation, against the
\* pieces of a caller string
InitMatch ==
  /\ ServerIdle /\ MapIdle
  /\ \E s \in StringsUpTo(MaxAnnLen) : fltApps = <<AppOf(<<"x">>, Split(s))>>
  /\ \E h \in StringsUpTo(MaxHdrLen) : fltUser = Split(h)
  /\ fltOut = <<>>
  /\ fltDone = FALSE

\* filtered := filterAppsByGroups(apps, userGroups)
ApplyFilter ==
  /\ ~fltDone
  /\ fltOut' = filterAppsByGroups(fltApps, fltUser)
  /\ fltDone' = TRUE
  /\ UNCHANGED <<fltApps, fltUser, serverVars, mapVars>>

NextFilter == ApplyFilter

SpecFilter == InitFilter /\ [][NextFilter]_vars

SpecMatch == InitMatch /\ [][NextFilter]_vars

\* ------------------------------------------ the mapping loops, run alone

InitMap ==
  /\ ServerIdle /\ FilterIdle
  /\ mapItems \in ListsUpTo(MapRecords, MaxRecs)
  /\ mapApps = <<>>
  /\ mapDone = ""

\* the loop of getDemoApps over the annotation bags of the records
ApplyDemoLoop ==
  /\ mapDone = ""
  /\ mapApps' = DemoLoop([i \in 1..Len(mapItems) |->
                            [Annotations |-> mapItems[i].Annotations]], 1)
  /\ mapDone' = "demo"
  /\ UNCHANGED <<mapItems, serverVars, fltVars>>

\* the loop of getK8sApps over the records
ApplyK8sLoop ==
  /\ mapDone = ""
  /\ mapApps' = K8sLoop(mapItems, 1)
  /\ mapDone' = "k8s"
  /\ UNCHANGED <<mapItems, serverVars, fltVars>>

NextMap == ApplyDemoLoop \/ ApplyK8sLoop

SpecMap == InitMap /\ [][NextMap]_vars

\* ------------------------------------------------------------ the server

\* most source changes in one behaviour
MaxChanges == 1

StatusOK == 200
StatusMethodNotAllowed == 405
StatusInternalServerError == 500

PrimaryPath == "/etc/dashboard/config.yaml"
SecondaryPath == "config.yaml"
Paths == {PrimaryPath, SecondaryPath}

GroupsHeader == "X-Forwarded-Groups"

\* the requests that may be in flight together
Requests == {"r1", "r2"}

NoConfig == [Groups |-> Empty, Ingresses |-> <<>>]

\* type Config of a document with groups "a , B" and four ingresses: one
\* restricted to "b, A", one with enabled "True", one public, one restricted
\* to "c"
ConfigA ==
  [Groups |-> <<"a", " ", ",", " ", "B">>,
   Ingresses |->
     << [Annotations |-> Bag(TrueLiteral, <<"x">>, <<"b", ",", " ", "A">>)],
        [Annotations |-> Bag(<<"T", "r", "u", "e">>, <<"y">>, <<"a">>)],
        [Annotations |-> Bag(TrueLiteral, <<"z">>, Absent)],
        [Annotations |-> Bag(TrueLiteral, <<"w">>, <<"c">>)] >>]

\* type Config of a document without groups, with one ingress restricted to "c"
ConfigB ==
  [Groups |-> Empty,
   Ingresses |-> << [Annotations |-> Bag(TrueLiteral, <<"v">>, <<"c">>)] >>]

FileMissing == [exists |-> FALSE, wellFormed |-> FALSE, config |-> NoConfig]
FileMalformed == [exists |-> TRUE, wellFormed |-> FALSE, config |-> NoConfig]
FileOf(config) == [exists |-> TRUE, wellFormed |-> TRUE, config |-> config]

\* what a path may hold
ServerFiles == {FileMissing, FileMalformed, FileOf(ConfigA), FileOf(ConfigB)}

\* what the orchestration API may answer: no in-cluster configuration, a
\* failing List call, or a list of ingresses
ClusterStates ==
  { [status |-> "noconfig", items |-> <<>>],
    [status |-> "listfail", items |-> <<>>],
    [status |-> "ok", items |->
       << Ingress(Bag(TrueLiteral, <<"x">>, <<"b", ",", " ", "A">>),
                  [Rules |-> <<[Host |-> HostA]>>, TLS |-> <<[Hosts |-> <<HostA>>]>>]),
          Ingress(Bag(Absent, <<"y">>, Absent),
                  [Rules |-> <<[Host |-> HostB]>>, TLS |-> <<>>]),
          Ingress(Bag(TrueLiteral, <<"z">>, Absent),
                  [Rules |-> <<>>, TLS |-> <<>>]) >>],
    [status |-> "ok", items |->
       << Ingress(Bag(TrueLiteral, <<"v">>, <<"c">>),
                  [Rules |-> <<[Host |-> HostB]>>, TLS |-> <<>>]) >>] }

\* outside a cluster rest.InClusterConfig fails
NoCluster == [status |-> "noconfig", items |-> <<>>]

\* the header maps of the requests
RequestHeaders ==
  { <<>>,
    (GroupsHeader :> Empty),
    (GroupsHeader :> <<"c">>),
    (GroupsHeader :> <<" ", "A", " ", ",", "d">>),
    ("X-Auth-Request-Groups" :> <<"c">>) }

RequestMethods == {"GET", "POST"}

\* values of DEMO_MODE
EnvValues == {"true", "1", ""}

\* r.Header.Get(key): "" when the header is missing
HeaderGet(header, key) == IF key \in DOMAIN header THEN header[key] ELSE Empty

\* the pieces of s, each trimmed in place (the loops at 378-380 and 405-407)
SplitAndTrim(s) ==
  LET groups == Split(s) IN [i \in 1..Len(groups) |-> TrimSpace(groups[i])]

\* the file loadDemoGroups and getDemoApps end up reading, with the paths
\* tried: the primary path, and the secondary one if reading it failed
ReadConfigFile(fs) ==
  IF fs[PrimaryPath].exists
  THEN [err |-> "", file |-> fs[PrimaryPath], reads |-> <<PrimaryPath>>]
  ELSE IF fs[SecondaryPath].exists
  THEN [err |-> "", file |-> fs[SecondaryPath], reads |-> <<PrimaryPath, SecondaryPath>>]
  ELSE [err |-> "read", file |-> FileMissing, reads |-> <<PrimaryPath, SecondaryPath>>]

\* loadDemoGroups(): the new value of demoGroups, old being its value so far
loadDemoGroups(fs, old) ==
  LET rd == ReadConfigFile(fs)
  IN  IF rd.err # "" THEN old
      ELSE IF ~rd.file.wellFormed THEN old
      ELSE IF rd.file.config.Groups # Empty THEN SplitAndTrim(rd.file.config.Groups)
      ELSE old

\* a faulty variant of getUserGroups: the header is read in every mode (the earlier
\* revision)
getUserGroupsHeaderOnly(header) ==
  LET groupsHeader == HeaderGet(header, GroupsHeader)
  IN  IF groupsHeader = Empty THEN <<>> ELSE SplitAndTrim(groupsHeader)

\* getUserGroups(r)
getUserGroups(header) ==
  IF demoMode THEN demoGroups
  ELSE LET groupsHeader == HeaderGet(header, GroupsHeader)
       IN  IF groupsHeader = Empty THEN <<>> ELSE SplitAndTrim(groupsHeader)

\* a faulty variant of getDemoApps: only the primary path is read (the earlier
\* revision)
getDemoAppsNoFallback(fs) ==
  IF ~fs[PrimaryPath].exists
  THEN [apps |-> <<>>, err |-> "read", reads |-> <<PrimaryPath>>]
  ELSE IF ~fs[PrimaryPath].wellFormed
  THEN [apps |-> <<>>, err |-> "parse", reads |-> <<PrimaryPath>>]
  ELSE [apps |-> DemoLoop(fs[PrimaryPath].config.Ingresses, 1), err |-> "",
        reads |-> <<PrimaryPath>>]

\* a faulty variant of getDemoApps: the listing of a request in flight is
\* reused instead of the file being read again
getDemoAppsCached(fs) ==
  IF \E s \in Requests : reqs[s].fetches > 0
  THEN LET s == CHOOSE s \in Requests : reqs[s].fetches > 0
       IN  [apps |-> reqs[s].apps, err |-> reqs[s].err, reads |-> <<PrimaryPath>>]
  ELSE LET rd == ReadConfigFile(fs)
       IN  IF rd.err # "" THEN [apps |-> <<>>, err |-> "read", reads |-> rd.reads]
           ELSE IF ~rd.file.wellFormed
           THEN [apps |-> <<>>, err |-> "parse", reads |-> rd.reads]
           ELSE [apps |-> DemoLoop(rd.file.config.Ingresses, 1), err |-> "",
                 reads |-> rd.reads]

\* getDemoApps(): the applications and the error returned, with the paths read
getDemoApps(fs) ==
  LET rd == ReadConfigFile(fs)
  IN  IF rd.err # "" THEN [apps |-> <<>>, err |-> "read", reads |-> rd.reads]
      ELSE IF ~rd.file.wellFormed
      THEN [apps |-> <<>>, err |-> "parse", reads |-> rd.reads]
      ELSE [apps |-> DemoLoop(rd.file.config.Ingresses, 1), err |-> "",
            reads |-> rd.reads]

\* getK8sApps(): the applications and the error returned
getK8sApps(cl) ==
  IF cl.status = "noconfig" THEN [apps |-> <<>>, err |-> "config", reads |-> <<>>]
  ELSE IF cl.status = "listfail" THEN [apps |-> <<>>, err |-> "list", reads |-> <<>>]
  ELSE [apps |-> K8sLoop(cl.items, 1), err |-> "", reads |-> <<>>]

\* a faulty variant of Respond: the error of the fetch is ignored
RespondIgnoringError(apps, err, userGroups) ==
  [status |-> StatusOK, body |-> filterAppsByGroups(apps, userGroups), filters |-> 1]

\* the end of handleApps: the failure response if the fetch failed, else the
\* filtered list, encoded
Respond(apps, err, userGroups) ==
  IF err # ""
  THEN [status |-> StatusInternalServerError, body |-> <<>>, filters |-> 0]
  ELSE [status |-> StatusOK, body |-> filterAppsByGroups(apps, userGroups),
        filters |-> 1]

\* a connection on which no request is being handled
IdleRequest ==
  [pc |-> "idle", method |-> "", header |-> <<>>, userGroups |-> <<>>,
   listed |-> <<>>, apps |-> <<>>, err |-> "", reads |-> <<>>, fetches |-> 0,
   filters |-> 0, responses |-> 0, status |-> 0, body |-> <<>>]

\* The source the mode does not select is never read: it is held fixed, the
\* files missing in cluster mode and the cluster without configuration in
\* static mode.
Init ==
  /\ MapIdle /\ FilterIdle
  /\ env \in EnvValues
  /\ started = FALSE
  /\ demoMode = FALSE
  /\ demoGroups = <<>>
  /\ \/ env = "true" /\ files \in [Paths -> ServerFiles] /\ cluster = NoCluster
     \/ env # "true" /\ files = [p \in Paths |-> FileMissing] /\ cluster \in ClusterStates
  /\ changes = 0
  /\ reqs = [r \in Requests |-> IdleRequest]

\* main(), up to ListenAndServe
Main ==
  /\ ~started
  /\ started' = TRUE
  /\ demoMode' = (env = "true")
  /\ demoGroups' = IF env = "true" THEN loadDemoGroups(files, demoGroups) ELSE demoGroups
  /\ UNCHANGED <<env, files, cluster, changes, reqs, mapVars, fltVars>>

\* handleApps, from its entry to the call of the adapter: the method check
\* and getUserGroups
HandleAppsBegin(r, method, header) ==
  /\ started
  /\ reqs[r].pc = "idle"
  /\ reqs' = [reqs EXCEPT ![r] =
       IF method # "GET"
       THEN [IdleRequest EXCEPT !.pc = "done", !.method = method, !.header = header,
                                !.responses = 1, !.status = StatusMethodNotAllowed]
       ELSE [IdleRequest EXCEPT !.pc = "fetch", !.method = method, !.header = header,
                                !.userGroups = getUserGroups(header)]]
  /\ UNCHANGED <<env, started, demoMode, demoGroups, files, cluster, changes,
                 mapVars, fltVars>>

\* handleApps: the call of the adapter the mode selects
HandleAppsFetch(r) ==
  /\ reqs[r].pc = "fetch"
  /\ LET got == IF demoMode THEN getDemoApps(files) ELSE getK8sApps(cluster)
     IN  reqs' = [reqs EXCEPT ![r].pc = "respond",
                              ![r].listed = <<files, cluster>>,
                              ![r].apps = got.apps,
                              ![r].err = got.err,
                              ![r].reads = got.reads,
                              ![r].fetches = @ + 1]
  /\ UNCHANGED <<env, started, demoMode, demoGroups, files, cluster, changes,
                 mapVars, fltVars>>

\* handleApps, from the error check to its return
HandleAppsRespond(r) ==
  /\ reqs[r].pc = "respond"
  /\ LET out == Respond(reqs[r].apps, reqs[r].err, reqs[r].userGroups)
     IN  reqs' = [reqs EXCEPT ![r].pc = "done",
                              ![r].status = out.status,
                              ![r].body = out.body,
                              ![r].filters = @ + out.filters,
                              ![r].responses = @ + 1]
  /\ UNCHANGED <<env, started, demoMode, demoGroups, files, cluster, changes,
                 mapVars, fltVars>>

\* the response has been delivered: the connection can carry the next request
Finish(r) ==
  /\ reqs[r].pc = "done"
  /\ reqs' = [reqs EXCEPT ![r] = IdleRequest]
  /\ UNCHANGED <<env, started, demoMode, demoGroups, files, cluster, changes,
                 mapVars, fltVars>>

\* the environment replaces, creates or removes a configuration file while the
\* static source is served
WriteFile(path, file) ==
  /\ started /\ demoMode
  /\ changes < MaxChanges
  /\ files[path] # file
  /\ files' = [files EXCEPT ![path] = file]
  /\ changes' = changes + 1
  /\ UNCHANGED <<env, started, demoMode, demoGroups, cluster, reqs, mapVars, fltVars>>

\* the environment changes the cluster while the cluster source is served
ClusterChange(cl) ==
  /\ started /\ ~demoMode
  /\ changes < MaxChanges
  /\ cluster # cl
  /\ cluster' = cl
  /\ changes' = changes + 1
  /\ UNCHANGED <<env, started, demoMode, demoGroups, files, reqs, mapVars, fltVars>>

Next ==
  \/ Main
  \/ \E r \in Requests, m \in RequestMethods, h \in RequestHeaders : HandleAppsBegin(r, m, h)
  \/ \E r \in Requests : HandleAppsFetch(r)
  \/ \E r \in Requests : HandleAppsRespond(r)
  \/ \E r \in Requests : Finish(r)
  \/ \E p \in Paths, f \in ServerFiles : WriteFile(p, f)
  \/ \E cl \in ClusterStates : ClusterChange(cl)

Spec == Init /\ [][Next]_vars

\* ------------------------------------------- vocabulary of the properties

\* s without its leading spaces
RECURSIVE DropLeading(_)
DropLeading(s) ==
  IF s # <<>> /\ Head(s) = " " THEN DropLeading(Tail(s)) ELSE s

\* s reversed
Reversed(s) == [i \in 1..Len(s) |-> s[Len(s) + 1 - i]]

\* a group identifier as the comparison sees it: surrounding spaces removed,
\* letters in lower case
Normalized(s) ==
  LET t == Reversed(DropLeading(Reversed(DropLeading(s))))
  IN  [i \in 1..Len(t) |->
         IF t[i] = "A" THEN "a" ELSE IF t[i] = "B" THEN "b" ELSE t[i]]

\* some application group and some caller group are the same identifier
SharesGroup(appGroups, userGroups) ==
  {Normalized(appGroups[i]) : i \in 1..Len(appGroups)}
    \cap {Normalized(userGroups[j]) : j \in 1..Len(userGroups)} # {}

\* the application is visible to the caller
Visible(app, userGroups) ==
  \/ userGroups = <<>>
  \/ app.Groups = <<>>
  \/ SharesGroup(app.Groups, userGroups)

RECURSIVE IsSubsequence(_, _)
\* out can be obtained from in by deleting elements
IsSubsequence(out, in) ==
  IF out = <<>> THEN TRUE
  ELSE IF in = <<>> THEN FALSE
  ELSE IF Head(out) = Head(in) THEN IsSubsequence(Tail(out), Tail(in))
  ELSE IsSubsequence(out, Tail(in))

RECURSIVE JoinComma(_)
\* the pieces with a comma between neighbours
JoinComma(pieces) ==
  IF Len(pieces) = 0 THEN <<>>
  ELSE IF Len(pieces) = 1 THEN pieces[1]
  ELSE pieces[1] \o <<",">> \o JoinComma(Tail(pieces))

\* the enabled flag of the record is present and is exactly "true"
FlagIsTrue(rec) ==
  /\ KeyEnabled \in DOMAIN rec.Annotations
  /\ rec.Annotations[KeyEnabled] = <<"t", "r", "u", "e">>

\* the positions of the records whose enabled flag is exactly "true"
EnabledPositions == {i \in 1..Len(mapItems) : FlagIsTrue(mapItems[i])}

\* the position of the j-th such record
EnabledAt(j) ==
  CHOOSE i \in EnabledPositions : Cardinality({k \in EnabledPositions : k <= i}) = j

\* the groups annotation of a record is missing or the empty string
NoGroupsAnnotation(rec) ==
  \/ KeyGroups \notin DOMAIN rec.Annotations
  \/ rec.Annotations[KeyGroups] = <<>>

\* some TLS entry of the record names the host
TLSCovers(rec, host) ==
  \E t \in 1..Len(rec.TLS) : \E h \in 1..Len(rec.TLS[t].Hosts) :
     rec.TLS[t].Hosts[h] = host

\* --------------------------------------------------------------- claims

\* C1: a source record yields an Application only if its enabled flag is
\* exactly "true"; every other record is skipped and the records after it are
\* still mapped: the result has one Application per enabled record, in order.
C1_OnlyExactlyEnabled ==
  mapDone # "" =>
    /\ Len(mapApps) = Cardinality(EnabledPositions)
    /\ \A j \in 1..Len(mapApps) :
         mapApps[j].Title = Lookup(mapItems[EnabledAt(j)].Annotations, KeyTitle)

\* C1 witness: a record with enabled "True" is skipped and the enabled record
\* after it is mapped
C1_Witness ==
  /\ mapDone = "demo"
  /\ Len(mapItems) = 2
  /\ KeyEnabled \in DOMAIN mapItems[1].Annotations
  /\ mapItems[1].Annotations[KeyEnabled] = <<"T", "r", "u", "e">>
  /\ FlagIsTrue(mapItems[2])
  /\ Len(mapApps) = 1
  /\ mapApps[1].Title = <<"y">>

\* C2: with non-empty groups on both sides the filter passes the application
\* iff some application group and some caller group are equal after trimming,
\* ignoring case; otherwise the application is excluded.
C2_PassIffSharedGroup ==
  (fltDone /\ Len(fltApps) = 1 /\ fltApps[1].Groups # <<>> /\ fltUser # <<>>) =>
    /\ SharesGroup(fltApps[1].Groups, fltUser) => fltOut = fltApps
    /\ ~SharesGroup(fltApps[1].Groups, fltUser) => fltOut = <<>>

\* C2 witness: application group "A " passes for caller group "a"
C2_Witness ==
  /\ fltDone
  /\ Len(fltApps) = 1
  /\ fltApps[1].Groups = <<<<"A", " ">>>>
  /\ fltUser = <<<<"a">>>>
  /\ fltOut = fltApps

\* C3: with an empty caller group set the filter returns exactly its input.
C3_EmptyCallerIsNoOp ==
  (fltDone /\ fltUser = <<>>) => fltOut = fltApps

\* C3 witness: a list with a group-restricted application came back whole
C3_Witness ==
  /\ fltDone
  /\ fltUser = <<>>
  /\ Len(fltApps) = 3
  /\ fltApps[2].Groups # <<>>
  /\ fltOut = fltApps

\* C4: an application with no groups is in the output for every caller.
C4_PublicAlwaysPasses ==
  fltDone =>
    \A i \in 1..Len(fltApps) :
       fltApps[i].Groups = <<>> => \E j \in 1..Len(fltOut) : fltOut[j] = fltApps[i]

\* C4 witness: a caller with groups gets the public application and not the
\* restricted one
C4_Witness ==
  /\ fltDone
  /\ fltUser = <<<<"d">>>>
  /\ Len(fltApps) = 2
  /\ fltApps[1].Groups # <<>>
  /\ fltApps[2].Groups = <<>>
  /\ fltOut = <<fltApps[2]>>

\* C5: the output is a subsequence of the input made of visible applications
\* only, and it has one element per visible input position: order is kept,
\* nothing is repeated, nothing is invented.
C5_StableSubsequence ==
  fltDone =>
    /\ IsSubsequence(fltOut, fltApps)
    /\ \A j \in 1..Len(fltOut) : Visible(fltOut[j], fltUser)
    /\ Len(fltOut) = Cardinality({i \in 1..Len(fltApps) : Visible(fltApps[i], fltUser)})

\* C5 witness: of [A, B, C] the excluded B is dropped, and A, two of whose
\* groups match two caller groups, appears once
C5_Witness ==
  /\ fltDone
  /\ Len(fltApps) = 3
  /\ fltUser = <<<<"b">>, <<"a">>>>
  /\ fltApps[1].Groups = <<<<"b">>, <<" ", "a">>>>
  /\ fltApps[2].Groups = <<<<"c">>>>
  /\ fltApps[3].Title # fltApps[1].Title
  /\ fltOut = <<fltApps[1], fltApps[3]>>

\* C6: the groups of a mapped application are the comma-separated pieces of
\* the groups annotation, none trimmed (joined by commas they give back the
\* annotation); a missing or empty annotation gives no groups, and such an
\* application is visible to every caller.
C6_GroupsSplitUntrimmed ==
  mapDone # "" =>
    \A j \in 1..Len(mapApps) :
      LET rec == mapItems[EnabledAt(j)]
          app == mapApps[j]
      IN  IF NoGroupsAnnotation(rec)
          THEN /\ app.Groups = <<>>
               /\ \A u \in FilterUsers : filterAppsByGroups(<<app>>, u) = <<app>>
          ELSE /\ app.Groups # <<>>
               /\ JoinComma(app.Groups) = rec.Annotations[KeyGroups]
               /\ \A g \in 1..Len(app.Groups) :
                    \A c \in 1..Len(app.Groups[g]) : app.Groups[g][c] # ","

\* C6 witness: "b, A" was mapped to ["b", " A"]
C6_Witness ==
  /\ mapDone = "k8s"
  /\ Len(mapApps) = 2
  /\ mapApps[1].Groups = <<>>
  /\ mapApps[2].Groups = <<<<"b">>, <<" ", "A">>>>

\* C7 as stated: the scheme of a cluster record's url is https iff TLS is
\* configured for the first rule, that is for its host.
C7_TLSOfFirstRule ==
  mapDone = "k8s" =>
    \A j \in 1..Len(mapApps) :
      LET rec == mapItems[EnabledAt(j)]
      IN  mapApps[j].URL =
            IF Len(rec.Rules) = 0 THEN <<>>
            ELSE IF TLSCovers(rec, rec.Rules[1].Host)
                 THEN <<"https://">> \o rec.Rules[1].Host
                 ELSE <<"http://">> \o rec.Rules[1].Host

\* C7 amended: the url of a cluster record is empty without rules; otherwise
\* it is the host of the first rule after "https://" if the record has any TLS
\* entry at all, whichever hosts the entry names, and after "http://" if it
\* has none.  The url of a static record is the placeholder.
C7_URLDerivation ==
  /\ mapDone = "k8s" =>
       \A j \in 1..Len(mapApps) :
         LET rec == mapItems[EnabledAt(j)]
         IN  mapApps[j].URL =
               IF rec.Rules = <<>> THEN <<>>
               ELSE IF rec.TLS # <<>>
                    THEN <<"https://">> \o rec.Rules[1].Host
                    ELSE <<"http://">> \o rec.Rules[1].Host
  /\ mapDone = "demo" =>
       \A j \in 1..Len(mapApps) : mapApps[j].URL = <<"https://example.com">>

\* C7 witness: a record whose only TLS entry names another host than its
\* first rule got an https url
C7_Witness ==
  /\ mapDone = "k8s"
  /\ Len(mapItems) = 1
  /\ Len(mapItems[1].Rules) = 2
  /\ ~TLSCovers(mapItems[1], mapItems[1].Rules[1].Host)
  /\ mapApps = <<K8sApp(mapItems[1])>>
  /\ mapApps[1].URL = <<"https://", "app.example.com">>

\* the request has called its adapter
HasFetched(q) == q.fetches > 0

\* the files as they were when the request called its adapter
ListedFiles(q) == q.listed[1]

\* the cluster as it was when the request called its adapter
ListedCluster(q) == q.listed[2]

\* the path was read by the adapter call of the request
Tried(q, path) == \E i \in 1..Len(q.reads) : q.reads[i] = path

\* the file is there and is a well-formed document
Usable(file) == file.exists /\ file.wellFormed

\* the selected source could not be listed when the request called its
\* adapter: the cluster gave no configuration or failed the listing; no
\* configuration file at either path; or the file read was malformed
SourceFailed(q) ==
  IF demoMode
  THEN LET fs == ListedFiles(q)
       IN  \/ ~fs[PrimaryPath].exists /\ ~fs[SecondaryPath].exists
           \/ fs[PrimaryPath].exists /\ ~fs[PrimaryPath].wellFormed
           \/ ~fs[PrimaryPath].exists /\ fs[SecondaryPath].exists
                /\ ~fs[SecondaryPath].wellFormed
  ELSE ListedCluster(q).status # "ok"

\* the titles of the records of a document whose enabled flag is "true"
EnabledTitles(config) ==
  LET on == SelectSeq(config.Ingresses, FlagIsTrue)
  IN  [i \in 1..Len(on) |-> on[i].Annotations[KeyTitle]]

\* s without its leading and trailing spaces
Stripped(s) == Reversed(DropLeading(Reversed(DropLeading(s))))

\* list holds the comma-separated identifiers of text
IsCommaListOf(list, text) ==
  \E pieces \in {Split(text)} :
     /\ JoinComma(pieces) = text
     /\ \A i \in 1..Len(pieces) : \A c \in 1..Len(pieces[i]) : pieces[i][c] # ","
     /\ list = [i \in 1..Len(pieces) |-> Stripped(pieces[i])]

\* C8: a request whose adapter call fails ends in one internal-failure
\* response: the adapter returns no application, the filter is not run, the
\* body carries no application, and the adapter is called once.
C8_FetchFailureFailsRequest ==
  \A r \in Requests :
    LET q == reqs[r]
    IN  /\ q.fetches <= 1
        /\ q.responses <= 1
        /\ (HasFetched(q) /\ SourceFailed(q)) => (q.err # "" /\ q.apps = <<>>)
        /\ (HasFetched(q) /\ SourceFailed(q) /\ q.pc = "done") =>
             /\ q.status = 500
             /\ q.body = <<>>
             /\ q.filters = 0
             /\ q.fetches = 1
             /\ q.responses = 1

\* C8 witness: a request of the static source that found a malformed document
\* has been answered
C8_Witness ==
  \E r \in Requests :
    /\ reqs[r].pc = "done"
    /\ HasFetched(reqs[r])
    /\ SourceFailed(reqs[r])
    /\ reqs[r].status = 500
    /\ reqs[r].body = <<>>
    /\ demoMode
    /\ reqs[r].err = "parse"

\* C9 as stated: whenever the primary file is missing or malformed the
\* secondary path is tried, a failure is reported only after the secondary
\* path has been tried, and a missing primary with a good secondary succeeds.
C9_FallbackOnMissingOrMalformed ==
  \A r \in Requests :
    LET q == reqs[r]
    IN  (demoMode /\ HasFetched(q)) =>
          /\ ~Usable(ListedFiles(q)[PrimaryPath]) => Tried(q, SecondaryPath)
          /\ q.err # "" => Tried(q, SecondaryPath)
          /\ (~ListedFiles(q)[PrimaryPath].exists /\ Usable(ListedFiles(q)[SecondaryPath]))
               => q.err = ""

\* C9 amended: the static adapter reads the primary path first; it tries the
\* secondary path exactly when the primary file is missing, and reports a read
\* failure only after both have been tried; a malformed primary file fails the
\* fetch with a parse failure without the secondary path being tried, and so
\* does a malformed secondary after a missing primary; a missing primary with
\* a readable, well-formed secondary succeeds with the secondary's records.
C9_FallbackOnMissingOnly ==
  \A r \in Requests :
    LET q == reqs[r]
        fs == ListedFiles(q)
    IN  (demoMode /\ HasFetched(q)) =>
          /\ q.reads[1] = PrimaryPath
          /\ Tried(q, SecondaryPath) <=> ~fs[PrimaryPath].exists
          /\ q.err = "read" <=> (~fs[PrimaryPath].exists /\ ~fs[SecondaryPath].exists)
          /\ q.err = "read" => q.reads = <<PrimaryPath, SecondaryPath>>
          /\ (fs[PrimaryPath].exists /\ ~fs[PrimaryPath].wellFormed) =>
               (q.err = "parse" /\ ~Tried(q, SecondaryPath))
          /\ (~fs[PrimaryPath].exists /\ fs[SecondaryPath].exists
                /\ ~fs[SecondaryPath].wellFormed) => q.err = "parse"
          /\ (~fs[PrimaryPath].exists /\ Usable(fs[SecondaryPath])) =>
               /\ q.err = ""
               /\ Len(q.apps) = Len(EnabledTitles(fs[SecondaryPath].config))
               /\ \A i \in 1..Len(q.apps) :
                    q.apps[i].Title = EnabledTitles(fs[SecondaryPath].config)[i]
          /\ Usable(fs[PrimaryPath]) =>
               /\ q.err = ""
               /\ Len(q.apps) = Len(EnabledTitles(fs[PrimaryPath].config))

\* C9 witness: the primary file was missing and the request got the three
\* enabled records of the secondary one
C9_Witness ==
  \E r \in Requests :
    /\ demoMode
    /\ HasFetched(reqs[r])
    /\ ~ListedFiles(reqs[r])[PrimaryPath].exists
    /\ ListedFiles(reqs[r])[SecondaryPath] = FileOf(ConfigA)
    /\ reqs[r].reads = <<PrimaryPath, SecondaryPath>>
    /\ reqs[r].err = ""
    /\ Len(reqs[r].apps) = 3

\* the file main() loads the demo groups from, if there is one
BootFile ==
  IF files[PrimaryPath].exists THEN files[PrimaryPath] ELSE files[SecondaryPath]

ListedRecords(q) ==
  IF demoMode
  THEN LET fs == ListedFiles(q)
       IN  IF fs[PrimaryPath].exists
           THEN fs[PrimaryPath].config.Ingresses
           ELSE fs[SecondaryPath].config.Ingresses
  ELSE ListedCluster(q).items

\* the record is open to the caller: no caller groups, no groups annotation,
\* or an identifier of the annotation is one of the caller's
RecordVisible(rec, userGroups) ==
  \/ userGroups = <<>>
  \/ NoGroupsAnnotation(rec)
  \/ SharesGroup(Split(rec.Annotations[KeyGroups]), userGroups)

\* the enabled records of the request's own listing that are open to the
\* request's own caller groups, in source order
ExpectedRecords(q) ==
  SelectSeq(ListedRecords(q),
            LAMBDA rec : FlagIsTrue(rec) /\ RecordVisible(rec, q.userGroups))

\* every successful response holds exactly the applications of the enabled,
\* visible records of its own listing
ResponsesAreOwnSnapshot ==
  \A r \in Requests :
    LET q == reqs[r]
    IN  (q.pc = "done" /\ q.status = 200) =>
          LET want == ExpectedRecords(q)
          IN  /\ HasFetched(q)
              /\ ~SourceFailed(q)
              /\ Len(q.body) = Len(want)
              /\ \A i \in 1..Len(q.body) :
                   /\ q.body[i].Title = want[i].Annotations[KeyTitle]
                   /\ NoGroupsAnnotation(want[i]) <=> q.body[i].Groups = <<>>
                   /\ ~NoGroupsAnnotation(want[i]) =>
                        JoinComma(q.body[i].Groups) = want[i].Annotations[KeyGroups]

\* a step of the server after startup: the mode flag and the demo group list
\* keep their values; a request that calls its adapter lists the source as it
\* is at that moment; a step of one request changes neither the other request
\* nor the source
StepsAreIsolated ==
  /\ started => (started' /\ demoMode' = demoMode /\ demoGroups' = demoGroups)
  /\ \A r \in Requests :
       /\ reqs'[r].fetches > reqs[r].fetches => reqs'[r].listed = <<files, cluster>>
       /\ reqs'[r] # reqs[r] =>
            /\ \A s \in Requests \ {r} : reqs'[s] = reqs[s]
            /\ files' = files
            /\ cluster' = cluster

\* C11: requests are independent and each lists afresh: handling a request
\* leaves the mode flag and the demo group list at their startup values and
\* touches no other request, and each successful response is map-then-filter
\* of the source as it was at that request's own listing with that request's
\* caller groups, so a source change shows in the next listing.
C11_IndependentFreshRequests ==
  []ResponsesAreOwnSnapshot /\ [][StepsAreIsolated]_vars

\* C11 witness: after a source change two answered requests hold different
\* listings, each its own: one from before the change and one from after it
C11_Witness ==
  /\ changes = 1
  /\ reqs["r1"].pc = "done" /\ reqs["r1"].status = 200
  /\ reqs["r2"].pc = "done" /\ reqs["r2"].status = 200
  /\ reqs["r1"].listed # reqs["r2"].listed
  /\ reqs["r2"].listed = <<files, cluster>>
  /\ Len(reqs["r1"].body) = 2
  /\ Len(reqs["r2"].body) = 0

====
